---- MODULE Spec2Model ----
(***************************************************************************)
(* Model of normalize_mathml.py: the Normalizer's recursive, in-place tree *)
(* rewriting of a parsed MathML document.                                  *)
(*                                                                         *)
(* A node is a record [name, string, contents].  A Tag has a name and an   *)
(* ordered sequence of children; a text leaf (NavigableString) has the     *)
(* name None and carries its text in `string`, a sequence of characters.   *)
(* The in-place mutation of the code is modelled by what each call of dfs  *)
(* leaves in the parent's child list in place of the node it visited:      *)
(* the node itself, nothing (extract) or the node's children               *)
(* (replace_with_children).                                                *)
(***************************************************************************)
EXTENDS Integers, Sequences, FiniteSets, TLC

VARIABLES
    soup,    \* the document tree handed to / returned by Normalizer.normalize
    status,  \* "parsed" | "returned" | "raised" | "observed"
    raised,  \* name of the exception normalize raised, or None
    prev,    \* the tree as it was before the last call of normalize
    calls,   \* number of calls of normalize made on this tree
    unit     \* the last observed application of a single rule inside dfs

vars == <<soup, status, raised, prev, calls, unit>>

----------------------------------------------------------------------------
(* Bounds of the model *)

MaxDepth == 2     \* nesting depth of wrappers in the generic input family
MaxWidth == 2     \* number of children of a wrapper in the generic family
MaxRows == 2      \* rows of an input mtable
MaxCols == 3      \* cells of an input mtr
MaxTextLen == 2   \* characters of an input text leaf
MaxCalls == 2     \* calls of normalize on one tree

----------------------------------------------------------------------------
(* Data *)

None == "None"
Document == "[document]"

\* characters that matter to the text rules
FA == "U+2061"      \* function application
THIN == "U+2009"    \* thin space
MOJIBAKE == <<"U+00E2", "U+02C6", "U+2019">>

EMPTY_TAGS == {"mtd", "mprescripts", "none"}

\* name -> required number of children; <<>> stands for Python's None
POSITIONAL_TAGS ==
    [msub |-> <<2>>, msup |-> <<2>>, msubsup |-> <<3>>, mover |-> <<2>>,
     munder |-> <<2>>, munderover |-> <<3>>, mmultiscripts |-> <<>>,
     mfrac |-> <<2>>]

Tag(name, contents) == [name |-> name, string |-> <<>>, contents |-> contents]

NavigableString(s) == [name |-> None, string |-> s, contents |-> <<>>]

\* isinstance(t, bs4.element.Tag)
IsTag(t) == t.name # None

RemoveAt(s, i) == SubSeq(s, 1, i - 1) \o SubSeq(s, i + 1, Len(s))

Max(S) == CHOOSE m \in S : \A n \in S : n <= m

\* the element of a one-element set; {e(v) : v \in {x}} evaluates x once and
\* names its value v, as a local variable of the code holds a value
The(S) == CHOOSE x \in S : TRUE

----------------------------------------------------------------------------
(* Text leaves: lines 53-64 *)

\* whitespace removed by str.strip() among the characters of the model
IsSpace(c) == c \in {" ", THIN}

RECURSIVE lstrip(_)
lstrip(s) ==
    IF s = <<>> THEN s
    ELSE IF IsSpace(Head(s)) THEN lstrip(Tail(s)) ELSE s

RECURSIVE rstrip(_)
rstrip(s) ==
    IF s = <<>> THEN s
    ELSE IF IsSpace(s[Len(s)]) THEN rstrip(SubSeq(s, 1, Len(s) - 1)) ELSE s

strip(s) == rstrip(lstrip(s))

\* str.replace(old, new): every non-overlapping occurrence, left to right
RECURSIVE replace(_, _, _)
replace(s, old, new) ==
    IF Len(s) < Len(old) THEN s
    ELSE IF SubSeq(s, 1, Len(old)) = old
         THEN new \o replace(SubSeq(s, Len(old) + 1, Len(s)), old, new)
         ELSE <<Head(s)>> \o replace(Tail(s), old, new)

normalize_characters(s) ==
    replace(replace(s, MOJIBAKE, <<"-">>), <<THIN>>, <<" ">>)

\* a plausible slip: delete the function application wherever it occurs
dfs_text_delete_all(t) ==
    NavigableString(
        SelectSeq(normalize_characters(strip(t.string)), LAMBDA c : c # FA))

\* the else branch of dfs: the text leaf after the visit
dfs_text(t) ==
    LET s == normalize_characters(strip(t.string))
    IN  NavigableString(IF s = <<FA>> THEN <<>> ELSE s)

----------------------------------------------------------------------------
(* The state of one call of dfs on a Tag t.                                *)
(*   t      : the node (its name and its current children)                 *)
(*   parent : the name of t.parent, None when t has no parent (the root,   *)
(*            or t after it was extracted or unwrapped)                    *)
(*   repl   : what stands in the former parent's child list in place of t  *)
(*            once t is detached                                           *)
(*   err    : the exception raised, None when none                         *)

Start(t, parent) == [t |-> t, parent |-> parent, repl |-> <<>>, err |-> None]

Raise(s, e) == [s EXCEPT !.err = e]

\* an exception is propagating: the statements that follow do not run
Raised(s) == s.err # None

\* what the call leaves in the parent's child list
Left(s) == IF s.parent # None THEN <<s.t>> ELSE s.repl

\* PageElement.extract(): detach t from its parent; nothing to do without one
extract(s) ==
    IF s.parent = None THEN s
    ELSE [s EXCEPT !.parent = None, !.repl = <<>>]

\* Tag.replace_with_children(): the children take t's place in the parent
replace_with_children(s) ==
    IF s.parent = None THEN Raise(s, "ValueError")
    ELSE [s EXCEPT !.parent = None, !.repl = s.t.contents, !.t.contents = <<>>]

\* Tag.string as read at line 74: the text of the single leaf below t, or
\* nothing (<<>>) when some node on the way has not exactly one child
RECURSIVE TagString(_)
TagString(t) ==
    IF ~IsTag(t) THEN <<t.string>>
    ELSE IF Len(t.contents) # 1 THEN <<>>
    ELSE TagString(t.contents[1])

\* the loop of merge_mi; last_c is the last element of done
RECURSIVE merge_loop(_, _)
merge_loop(done, todo) ==
    IF todo = <<>> THEN [contents |-> done, err |-> None]
    ELSE LET c == Head(todo)
             last_c == done[Len(done)]
         IN  IF c.name = "mi" /\ done # <<>> /\ last_c.name = "mi"
             THEN LET a == TagString(last_c)
                      b == TagString(c)
                  IN  IF a = <<>> \/ b = <<>>
                      THEN [contents |-> done \o todo, err |-> "TypeError"]
                      ELSE merge_loop(
                             SubSeq(done, 1, Len(done) - 1)
                               \o <<[c EXCEPT !.contents =
                                       <<NavigableString(a[1] \o b[1])>>]>>,
                             Tail(todo))
             ELSE merge_loop(done \o <<c>>, Tail(todo))

merge_mi(s) ==
    IF s.t.name \notin DOMAIN POSITIONAL_TAGS
    THEN The({[s EXCEPT !.t.contents = m.contents, !.err = m.err] :
                m \in {merge_loop(<<>>, s.t.contents)}})
    ELSE s

\* lines 41-43
collapse_mrow(s) ==
    IF s.t.name = "mrow" /\ Len(s.t.contents) = 1
    THEN replace_with_children(s)
    ELSE s

\* `t.parent not in POSITIONAL_TAGS` (line 99) looks the parent Tag object,
\* not its name, up among the str keys of the dict: a Tag equals no str
ParentInPositionalTags(parent) == FALSE

remove_empty_tag(s) ==
    IF Len(s.t.contents) = 0 /\ s.t.name \notin EMPTY_TAGS
    THEN IF s.parent # None /\ ~ParentInPositionalTags(s.parent)
         THEN extract(s)
         ELSE s
    ELSE s

is_empty_mtd(t) == t.name = "mtd" /\ Len(t.contents) = 0

remove_empty_row(s) ==
    IF s.t.name = "mtr"
       /\ \A i \in 1..Len(s.t.contents) : is_empty_mtd(s.t.contents[i])
    THEN extract(s)
    ELSE s

\* lines 116-118 on one row: enumerate(row.children) walks the live child
\* list by position i while cell.extract() shortens it; j counts the cells
\* the iterator has yielded
RECURSIVE extract_cells(_, _, _, _)
extract_cells(cells, i, j, is_empty) ==
    IF i >= Len(cells) THEN cells
    ELSE IF is_empty[j]
         THEN extract_cells(RemoveAt(cells, i + 1), i + 1, j + 1, is_empty)
         ELSE extract_cells(cells, i + 1, j + 1, is_empty)

\* lines 115-118: the second loop over the rows
RECURSIVE extract_rows(_, _)
extract_rows(rows, is_empty) ==
    IF rows = <<>> THEN <<>>
    ELSE <<[Head(rows) EXCEPT !.contents = extract_cells(@, 0, 0, is_empty)]>>
           \o extract_rows(Tail(rows), is_empty)

remove_empty_columns(s) ==
    IF s.t.name # "mtable" THEN s
    ELSE LET rows == s.t.contents
         IN  IF \E i \in 1..Len(rows) : ~IsTag(rows[i])
             THEN Raise(s, "AttributeError")
             ELSE IF rows = <<>> THEN Raise(s, "ValueError")
             ELSE LET n_columns ==
                          Max({Len(rows[i].contents) : i \in 1..Len(rows)})
                      is_empty ==
                          [j \in 0..(n_columns - 1) |->
                              \A i \in 1..Len(rows) :
                                  j < Len(rows[i].contents)
                                    => is_empty_mtd(rows[i].contents[j + 1])]
                  IN  [s EXCEPT !.t.contents = extract_rows(rows, is_empty)]

_check_single_name(tag, name) ==
    IsTag(tag) /\ tag.name = name /\ Len(tag.contents) = 1

\* what one child c of t becomes in t's child list
single_table(c) ==
    IF _check_single_name(c, "mtable")
    THEN LET gc == c.contents[1]
         IN  IF _check_single_name(gc, "mtr")
             THEN LET ggc == gc.contents[1]
                  IN  IF IsTag(ggc) /\ ggc.name = "mtd"
                      THEN ggc.contents
                      ELSE <<c>>
             ELSE <<c>>
    ELSE <<c>>

\* the loop of remove_single_table over list(t.children)
RECURSIVE single_tables(_)
single_tables(cs) ==
    IF cs = <<>> THEN <<>>
    ELSE single_table(Head(cs)) \o single_tables(Tail(cs))

remove_single_table(s) == [s EXCEPT !.t.contents = single_tables(@)]

validate(s) ==
    LET n_children == IF s.t.name \in DOMAIN POSITIONAL_TAGS
                      THEN POSITIONAL_TAGS[s.t.name]
                      ELSE <<>>
    IN  IF n_children # <<>> /\ n_children[1] # Len(s.t.contents)
        THEN Raise(s, "RuntimeError")
        ELSE s

----------------------------------------------------------------------------
(* dfs: lines 29-58 *)

RECURSIVE dfs(_, _)

\* for c in list(t.children): self.dfs(c)
RECURSIVE dfs_children(_, _)
dfs_children(cs, pname) ==
    IF cs = <<>> THEN [out |-> <<>>, err |-> None]
    ELSE The({IF Raised(r) THEN [out |-> <<>>, err |-> r.err]
              ELSE The({[out |-> Left(r) \o rest.out, err |-> rest.err] :
                          rest \in {dfs_children(Tail(cs), pname)}}) :
                r \in {dfs(Head(cs), pname)}})

\* lines 31-37
visit(s) ==
    IF s.t.name = "annotation" THEN extract(s)
    ELSE IF s.t.name = "semantics" /\ Len(s.t.contents) = 1
         THEN replace_with_children(s)
         ELSE The({[s EXCEPT !.t.contents = r.out, !.err = r.err] :
                     r \in {dfs_children(s.t.contents, s.t.name)}})

\* the statements of the Tag branch after the visit of the children, lines
\* 39-52, each run on the state its predecessor left
from_validate(s) == IF Raised(s) THEN s ELSE validate(s)
from_remove_single_table(s) ==
    IF Raised(s) THEN s
    ELSE The({from_validate(v) : v \in {remove_single_table(s)}})
from_remove_empty_columns(s) ==
    IF Raised(s) THEN s
    ELSE The({from_remove_single_table(v) : v \in {remove_empty_columns(s)}})
from_remove_empty_row(s) ==
    IF Raised(s) THEN s
    ELSE The({from_remove_empty_columns(v) : v \in {remove_empty_row(s)}})
from_remove_empty_tag(s) ==
    IF Raised(s) THEN s
    ELSE The({from_remove_empty_row(v) : v \in {remove_empty_tag(s)}})
from_collapse_mrow(s) ==
    IF Raised(s) THEN s
    ELSE The({from_remove_empty_tag(v) : v \in {collapse_mrow(s)}})
from_merge_mi(s) ==
    IF Raised(s) THEN s
    ELSE The({from_collapse_mrow(v) : v \in {merge_mi(s)}})

dfs(t, parent) ==
    IF IsTag(t)
    THEN The({from_merge_mi(v) : v \in {visit(Start(t, parent))}})
    ELSE Start(dfs_text(t), parent)

\* the state of the call dfs(t) when it reaches remove_empty_tag (line 45)
\* and when it reaches remove_empty_columns (line 49)
to_collapse_mrow(s) ==
    IF Raised(s) THEN s
    ELSE The({IF Raised(v) THEN v ELSE collapse_mrow(v) : v \in {merge_mi(s)}})

AtRemoveEmptyTag(t, parent) ==
    The({to_collapse_mrow(v) : v \in {visit(Start(t, parent))}})

to_remove_empty_row(s) ==
    IF Raised(s) THEN s
    ELSE The({remove_empty_row(v) : v \in {remove_empty_tag(s)}})

AtRemoveEmptyColumns(t, parent) ==
    The({to_remove_empty_row(v) : v \in {AtRemoveEmptyTag(t, parent)}})

\* the calls of dfs on Tags that one call dfs(t) makes, each with the node
\* it is called on and the name of that node's parent; the loop over the
\* children stops at the first child whose visit raises
RECURSIVE Frames(_, _)
RECURSIVE ChildFrames(_, _)
ChildFrames(cs, pname) ==
    IF cs = <<>> THEN {}
    ELSE Frames(Head(cs), pname)
           \cup (IF dfs(Head(cs), pname).err # None THEN {}
                 ELSE ChildFrames(Tail(cs), pname))

Frames(t, parent) ==
    IF ~IsTag(t) THEN {}
    ELSE {[t |-> t, parent |-> parent]}
           \cup (IF t.name = "annotation"
                    \/ (t.name = "semantics" /\ Len(t.contents) = 1)
                 THEN {}
                 ELSE ChildFrames(t.contents, t.name))

----------------------------------------------------------------------------
(* Input trees *)

\* the sequences over S of length n, and of a length in lo..hi
RECURSIVE SeqsLen(_, _)
SeqsLen(S, n) ==
    IF n = 0 THEN {<<>>}
    ELSE {Append(s, x) : s \in SeqsLen(S, n - 1), x \in S}

SeqsOf(S, lo, hi) == UNION {SeqsLen(S, n) : n \in lo..hi}

mi(c) == Tag("mi", <<NavigableString(<<c>>)>>)
mo(s) == Tag("mo", <<NavigableString(s)>>)

Doc(cs) == Tag(Document, cs)

Base ==
    {mi("x"), mi("y"), Tag("mrow", <<>>),
     Tag("annotation", <<NavigableString(<<"x">>)>>)}

Wrappers == {"mrow", "semantics", "msub"}

RECURSIVE Exprs(_, _)
Exprs(d, w) ==
    IF d = 0 THEN Base
    ELSE LET sub == Exprs(d - 1, w)
         IN  sub \cup {Tag(n, cs) : n \in Wrappers, cs \in SeqsOf(sub, 1, w)}

Cells == {Tag("mtd", <<>>), Tag("mtd", <<mi("x")>>)}

Rows(c) == {Tag("mtr", cs) : cs \in SeqsOf(Cells, 0, c)}

Tables(r, c) == {Tag("mtable", rs) : rs \in SeqsOf(Rows(c), 0, r)}

ExprDocs(d, w) == {Doc(<<e>>) : e \in Exprs(d, w)}

TableDocs(r, c) ==
    UNION {{Doc(<<T>>),
            Doc(<<Tag("mrow", <<mi("x"), T>>)>>),
            Doc(<<Tag("semantics", <<T>>)>>)} : T \in Tables(r, c)}

Alphabet == {"f", FA, " ", THIN}

Texts(n) == SeqsOf(Alphabet, 0, n)

TextDocs(n) ==
    {Doc(<<mo(s)>>) : s \in Texts(n)}
      \cup {Doc(<<Tag("mrow", <<mo(s1), mo(s2)>>)>>) :
              s1 \in Texts(n), s2 \in Texts(n)}

----------------------------------------------------------------------------
(* The state machine *)

NoUnit ==
    [fn |-> None, parent |-> None, before |-> NavigableString(<<>>),
     after |-> NavigableString(<<>>), detached |-> FALSE, err |-> None]

Begin(docs) ==
    /\ soup \in docs
    /\ status = "parsed"
    /\ raised = None
    /\ prev = soup
    /\ calls = 0
    /\ unit = NoUnit

Init == Begin(ExprDocs(MaxDepth, MaxWidth) \cup TableDocs(MaxRows, MaxCols))

InitText == Begin(TextDocs(MaxTextLen))

\* Normalizer.normalize(soup): lines 25-27; the first call is main's
\* (line 167), a further call re-runs normalize on the tree it returned
Normalize ==
    /\ status \in {"parsed", "returned"}
    /\ calls < MaxCalls
    /\ \E r \in {dfs(soup, None)} :
           /\ prev' = soup
           /\ calls' = calls + 1
           /\ unit' = unit
           /\ IF r.err = None
              THEN /\ soup' = r.t
                   /\ status' = "returned"
                   /\ raised' = None
              ELSE \* the exception reaches the caller, which gets no tree
                   /\ soup' = soup
                   /\ status' = "raised"
                   /\ raised' = r.err

\* one execution of remove_empty_tag(t) (line 45) during normalize(soup) on
\* a node that has no children when the rule runs
ObserveRemoveEmptyTag ==
    /\ status = "parsed"
    /\ \E f \in Frames(soup, None) :
       \E before \in {AtRemoveEmptyTag(f.t, f.parent)} :
         LET after == remove_empty_tag(before)
         IN  /\ before.err = None
             /\ Len(before.t.contents) = 0
             /\ unit' = [fn |-> "remove_empty_tag", parent |-> f.parent,
                         before |-> before.t, after |-> after.t,
                         detached |-> (before.parent # None
                                         /\ after.parent = None),
                         err |-> after.err]
    /\ status' = "observed"
    /\ UNCHANGED <<soup, raised, prev, calls>>

\* one execution of remove_empty_columns(t) (line 49) on an mtable during
\* normalize(soup)
ObserveRemoveEmptyColumns ==
    /\ status = "parsed"
    /\ \E f \in Frames(soup, None) :
       \E before \in {AtRemoveEmptyColumns(f.t, f.parent)} :
         LET after == remove_empty_columns(before)
         IN  /\ before.err = None
             /\ before.t.name = "mtable"
             /\ unit' = [fn |-> "remove_empty_columns", parent |-> f.parent,
                         before |-> before.t, after |-> after.t,
                         detached |-> FALSE,
                         err |-> after.err]
    /\ status' = "observed"
    /\ UNCHANGED <<soup, raised, prev, calls>>

Next == Normalize \/ ObserveRemoveEmptyTag \/ ObserveRemoveEmptyColumns

Spec == Init /\ [][Next]_vars

NextText == Normalize

SpecText == InitText /\ [][NextText]_vars

----------------------------------------------------------------------------
(* Properties *)

\* every node of the tree t, t included
RECURSIVE Nodes(_)
Nodes(t) == {t} \cup UNION {Nodes(t.contents[i]) : i \in 1..Len(t.contents)}

Elements(t) == {n \in Nodes(t) : IsTag(n)}

\* the texts of the leaves of t in document order
RECURSIVE Leaves(_)
RECURSIVE LeavesOf(_)
LeavesOf(cs) ==
    IF cs = <<>> THEN <<>> ELSE Leaves(Head(cs)) \o LeavesOf(Tail(cs))
Leaves(t) == IF IsTag(t) THEN LeavesOf(t.contents) ELSE <<t.string>>

Count(c, s) == Cardinality({k \in 1..Len(s) : s[k] = c})

PositionalNames ==
    {"msub", "msup", "msubsup", "mover", "munder", "munderover",
     "mmultiscripts", "mfrac"}

\* C1: a second call of normalize on a tree normalize returned succeeds and
\* leaves the tree as it was (idempotence).
C1_Idempotent == calls = 2 => (status = "returned" /\ soup = prev)

\* C2: in every tree normalize returns, each msub, msup, mover, munder and
\* mfrac has exactly 2 children and each msubsup and munderover exactly 3.
C2_ArityInvariant ==
    status = "returned" =>
        \A n \in Elements(soup) :
            /\ n.name \in {"msub", "msup", "mover", "munder", "mfrac"}
                 => Len(n.contents) = 2
            /\ n.name \in {"msubsup", "munderover"} => Len(n.contents) = 3

\* C3: in every tree normalize returns, no mtable has a row whose cells are
\* all empty mtd, nor a column index below the maximum row width at which
\* every row holds an empty mtd or has no cell.
C3_NoEmptyTable ==
    status = "returned" =>
        \A n \in Elements(soup) :
            n.name = "mtable" =>
                /\ \A i \in 1..Len(n.contents) :
                     ~ \A k \in 1..Len(n.contents[i].contents) :
                           is_empty_mtd(n.contents[i].contents[k])
                /\ \A j \in 1..Max({0} \cup {Len(n.contents[i].contents) :
                                                i \in 1..Len(n.contents)}) :
                     ~ \A i \in 1..Len(n.contents) :
                           j <= Len(n.contents[i].contents)
                             => is_empty_mtd(n.contents[i].contents[j])

\* C4: a tree normalize returns contains no annotation element anywhere.
C4_NoAnnotation ==
    status = "returned" => \A n \in Elements(soup) : n.name # "annotation"

\* C5: on well-formed tables the only exception normalize raises is the
\* arity error of validate.
C5_OnlyArityError == status = "raised" => raised = "RuntimeError"

\* C6 (as claimed): after normalize no visited text leaf contains U+2061;
\* every leaf of the text documents is visited.
C6_NoFunctionApplication ==
    status = "returned" =>
        \A i \in 1..Len(Leaves(soup)) : Count(FA, Leaves(soup)[i]) = 0

\* the text is U+2061 alone once surrounding whitespace is trimmed
ExactlyFA(s) ==
    /\ Count(FA, s) = 1
    /\ \A k \in 1..Len(s) : s[k] = FA \/ IsSpace(s[k])

\* C6 (amended): normalize empties a visited text leaf whose trimmed text is
\* exactly U+2061, and in every other visited leaf it keeps every occurrence
\* of U+2061.
C6_FunctionApplicationOnlyAlone ==
    status = "returned" =>
        LET a == Leaves(prev)
            b == Leaves(soup)
        IN  /\ Len(a) = Len(b)
            /\ \A i \in 1..Len(a) :
                 IF ExactlyFA(a[i]) THEN b[i] = <<>>
                 ELSE Count(FA, b[i]) = Count(FA, a[i])

\* C6 witness: one call turned a leaf holding whitespace and U+2061 into the
\* empty leaf and kept U+2061 in a leaf that holds it after an 'f'.
C6_Witness ==
    /\ status = "returned"
    /\ calls = 1
    /\ Leaves(prev) = << <<"f", FA>>, <<" ", FA>> >>
    /\ Leaves(soup) = << <<"f", FA>>, <<>> >>

\* C7: a tree normalize returns contains no semantics element with exactly
\* one child.
C7_SemanticsUnwrapped ==
    status = "returned" =>
        \A n \in Elements(soup) :
            ~(n.name = "semantics" /\ Len(n.contents) = 1)

\* C8: remove_empty_tag detaches a childless element only when its tag is
\* not mtd, mprescripts or none and its parent's tag is not positional.
C8_PositionalSlotKept ==
    (unit.fn = "remove_empty_tag" /\ unit.detached) =>
        /\ Len(unit.before.contents) = 0
        /\ unit.before.name \notin {"mtd", "mprescripts", "none"}
        /\ unit.parent \notin PositionalNames

\* the column index j (from 1) is empty in the rows: every row that has a
\* j-th cell holds an empty mtd there
EmptyColumn(rows, j) ==
    \A i \in 1..Len(rows) :
        j <= Len(rows[i].contents) => is_empty_mtd(rows[i].contents[j])

\* the cells at the positions in 1..n that are not empty columns, in order
RECURSIVE KeptCells(_, _, _)
KeptCells(rows, cells, n) ==
    IF n = 0 THEN <<>>
    ELSE KeptCells(rows, cells, n - 1)
           \o (IF EmptyColumn(rows, n) THEN <<>> ELSE <<cells[n]>>)

\* C9: remove_empty_columns detaches from every row the cells of the empty
\* columns and no other cell, keeping the order of the rest.
C9_ExactlyEmptyColumns ==
    (unit.fn = "remove_empty_columns" /\ unit.err = None) =>
        /\ Len(unit.after.contents) = Len(unit.before.contents)
        /\ \A i \in 1..Len(unit.before.contents) :
             unit.after.contents[i].contents =
                 KeptCells(unit.before.contents,
                           unit.before.contents[i].contents,
                           Len(unit.before.contents[i].contents))

\* C10: in a tree normalize returns, no element with a non-positional tag
\* has two consecutive mi children.
C10_NoAdjacentMi ==
    status = "returned" =>
        \A n \in Elements(soup) :
            n.name \notin PositionalNames =>
                \A i \in 1..(Len(n.contents) - 1) :
                    ~(n.contents[i].name = "mi" /\ n.contents[i + 1].name = "mi")

====
